---------------------------- MODULE Spec2Model ----------------------------
(***************************************************************************)
(* Model of m3u8_download.py: the ad-segment filter, the resume state      *)
(* store, the resumable segment fetcher, the stream assembler, the output  *)
(* name normalisation and the orchestrator                                 *)
(* download_m3u8_video_to_mp4_with_resume.  Each part has a specification  *)
(* of its own (SpecFilter, SpecStore, SpecFetch, SpecCat, SpecName); Spec  *)
(* runs the orchestrator over several runs, SpecChange lets the served     *)
(* manifest change between them.                                           *)
(*                                                                         *)
(* Text is modelled at the granularity the code works on.  A playlist      *)
(* line is a tuple of string chunks (<<"d", "/", "a", ".ts">> is the line  *)
(* "d/a.ts", <<>> is a blank line), so that startswith / endswith / "in"   *)
(* and the URL path split are computed, not looked up.  A text is the      *)
(* non-empty sequence of its lines (what str.split('\n') returns); the     *)
(* empty string is <<BlankLine>>.                                          *)
(***************************************************************************)
EXTENDS Integers, Sequences, FiniteSets, TLC

VARIABLES
    \* ---- filter_ad_segments, run line by line (SpecFilter) ----
    m3u8_content,         \* the argument: raw manifest text
    fpc,                  \* "start" | "loop" | "done"
    lines,                \* m3u8_content.strip().split('\n')
    fpos,                 \* number of lines the for loop has consumed
    filtered_lines,       \* the output list
    discontinuity_count,
    skip_segment,
    kept,                 \* history: positions (in lines) of the emitted lines
    filter_result,        \* the returned text, once fpc = "done"
    \* ---- the world: the server and the working directory ----
    upstream,             \* manifest text served at m3u8_url
    state_file,           \* download_state_<md5>.json
    seg_files,            \* the segment files, by name
    temp_m3u8,            \* temp_filtered.m3u8
    temp_ts,              \* temp_concatenated.ts
    output_mp4,           \* the converted output
    \* ---- one run of download_m3u8_video_to_mp4_with_resume ----
    pc,                   \* position of the run
    runs,                 \* runs started so far
    downloaded_segments,  \* the set built at line 280, the fetcher's argument
    filtered_content,     \* text returned by filter_ad_segments
    download_state,       \* the fetcher's dict; downloaded_list is its list
    ts_files,             \* the list the fetcher returns, also the assembler's input
    segment_index,
    li,                   \* lines of the playlist the fetcher's loop has consumed
    response,             \* response.content of the segment being fetched
    cat_pos,              \* files concatenate_videos has appended
    cl,                   \* files cleanup_temp_files has removed
    remux,                \* how convert_ts_to_mp4 ended in this run
    \* ---- history ----
    gets,                 \* line numbers of the segment GETs issued in this run
    writes,               \* line numbers whose file write was begun in this run
    error,                \* what raised, when pc = "raised"
    fail_line,            \* line whose GET failed, in this run or the one just before
    written_full,         \* names whose file has ever received a full body
    dest_before,          \* temp_concatenated.ts as concatenate_videos found it
    \* ---- the state store called on its own (SpecStore) ----
    state_dir,            \* the state files of the working directory, by file name
    spc,                  \* "idle" | "ready" | "saved" | "save_raised" | "loaded" | "load_raised"
    store_url,            \* m3u8_url of the last save_download_state call
    store_state,          \* the state it wrote, if it returned
    dir_before,           \* history: the other URLs' records as that call found them
    load_url,             \* m3u8_url of the last load_download_state call since
    loaded,               \* the state it returned
    \* ---- the output name normalisation on its own (SpecName) ----
    output_filename,      \* the requested output name
    npc,                  \* "idle" | "start" | "plain" | "resume"
    final_name            \* output_filename after lines 19-20 / 270-271

filterVars == <<m3u8_content, fpc, lines, fpos, filtered_lines,
                discontinuity_count, skip_segment, kept, filter_result>>

worldVars == <<upstream, state_file, seg_files, temp_m3u8, temp_ts, output_mp4>>

runVars == <<pc, runs, downloaded_segments, filtered_content, download_state,
             ts_files, segment_index, li, response, cat_pos, cl, remux>>

histVars == <<gets, writes, error, fail_line, written_full, dest_before>>

pipeVars == <<worldVars, runVars, histVars>>

storeVars == <<state_dir, spc, store_url, store_state, dir_before, load_url, loaded>>

nameVars == <<output_filename, npc, final_name>>

sideVars == <<storeVars, nameVars>>

vars == <<filterVars, pipeVars, sideVars>>

-----------------------------------------------------------------------------
(* Bounds *)

\* longest manifest (in lines) the filter is run on, the worked example apart
MaxLines == 5

\* longest playlist (in lines) the fetcher and the orchestrator are run on
MaxPlaylist == 3

\* runs of the orchestrator in one behaviour
MaxRuns == 2

\* longest downloaded_segments list, and largest total_segments, the state
\* store is called with
MaxStored == 2

\* longest requested output name, in chunks
MaxNameLen == 4

-----------------------------------------------------------------------------
(* Lines and texts *)

DiscontinuityTag == "#EXT-X-DISCONTINUITY"

BlankLine == <<>>
DiscLine == <<DiscontinuityTag>>
\* another HLS tag with the same prefix: startswith() makes it a marker too
DiscSeqLine == <<DiscontinuityTag, "-SEQUENCE:0">>
InfLine == <<"#EXTINF:4,">>
Seg(n) == <<"seg" \o ToString(n), ".ts">>

\* line.startswith('#EXT-X-DISCONTINUITY')
IsDiscontinuity(line) == Len(line) > 0 /\ line[1] = DiscontinuityTag

\* line.endswith('.ts') or '.ts?' in line  (lines 193, 332, 338)
IsSegmentLine(line) ==
    \/ Len(line) > 0 /\ line[Len(line)] = ".ts"
    \/ \E k \in 1..(Len(line) - 1) : line[k] = ".ts" /\ line[k + 1] = "?"

\* str.strip() on a text whose lines carry no other whitespace: the leading
\* and the trailing run of blank lines go; an all-blank text becomes ''.
RECURSIVE StripLeft(_)
StripLeft(t) ==
    IF t = <<>> THEN <<>>
    ELSE IF Head(t) = BlankLine THEN StripLeft(Tail(t)) ELSE t

RECURSIVE StripRight(_)
StripRight(t) ==
    IF t = <<>> THEN <<>>
    ELSE IF t[Len(t)] = BlankLine THEN StripRight(SubSeq(t, 1, Len(t) - 1)) ELSE t

\* m3u8_content.strip().split('\n'): never the empty list, '' gives ['']
StripSplit(text) ==
    LET s == StripRight(StripLeft(text))
    IN  IF s = <<>> THEN <<BlankLine>> ELSE s

\* '\n'.join(filtered_lines): the empty list gives ''
JoinLines(ls) == IF ls = <<>> THEN <<BlankLine>> ELSE ls

-----------------------------------------------------------------------------
(* filter_ad_segments *)

FilterInitState == [count |-> 0, skip |-> FALSE, out |-> <<>>, emitted |-> FALSE]

\* Mutant: the marker count parity is tested the wrong way round.
FilterStep_OddSkips(st, line) ==
    IF IsDiscontinuity(line)
    THEN LET c == st.count + 1
         IN  IF c = 1
             THEN [count |-> c, skip |-> FALSE, out |-> Append(st.out, line), emitted |-> TRUE]
             ELSE IF c % 2 = 1
                  THEN [count |-> c, skip |-> TRUE, out |-> st.out, emitted |-> FALSE]
                  ELSE [count |-> c, skip |-> FALSE, out |-> Append(st.out, line), emitted |-> TRUE]
    ELSE IF ~st.skip
         THEN [st EXCEPT !.out = Append(@, line), !.emitted = TRUE]
         ELSE [st EXCEPT !.emitted = FALSE]

\* Mutant: the first marker is counted but not emitted.
FilterStep_DropFirst(st, line) ==
    IF IsDiscontinuity(line)
    THEN LET c == st.count + 1
         IN  IF c = 1
             THEN [count |-> c, skip |-> FALSE, out |-> st.out, emitted |-> FALSE]
             ELSE IF c % 2 = 0
                  THEN [count |-> c, skip |-> TRUE, out |-> st.out, emitted |-> FALSE]
                  ELSE [count |-> c, skip |-> FALSE, out |-> Append(st.out, line), emitted |-> TRUE]
    ELSE IF ~st.skip
         THEN [st EXCEPT !.out = Append(@, line), !.emitted = TRUE]
         ELSE [st EXCEPT !.emitted = FALSE]

\* Mutant: "elif not skip_segment" written as "elif skip_segment".
FilterStep_EmitSkipped(st, line) ==
    IF IsDiscontinuity(line)
    THEN LET c == st.count + 1
         IN  IF c = 1
             THEN [count |-> c, skip |-> FALSE, out |-> Append(st.out, line), emitted |-> TRUE]
             ELSE IF c % 2 = 0
                  THEN [count |-> c, skip |-> TRUE, out |-> st.out, emitted |-> FALSE]
                  ELSE [count |-> c, skip |-> FALSE, out |-> Append(st.out, line), emitted |-> TRUE]
    ELSE IF st.skip
         THEN [st EXCEPT !.out = Append(@, line), !.emitted = TRUE]
         ELSE [st EXCEPT !.emitted = FALSE]

\* Mutant: an odd-numbered marker after the first is emitted but does not
\* end the skipping.
FilterStep_StaySkipping(st, line) ==
    IF IsDiscontinuity(line)
    THEN LET c == st.count + 1
         IN  IF c = 1
             THEN [count |-> c, skip |-> FALSE, out |-> Append(st.out, line), emitted |-> TRUE]
             ELSE IF c % 2 = 0
                  THEN [count |-> c, skip |-> TRUE, out |-> st.out, emitted |-> FALSE]
                  ELSE [count |-> c, skip |-> st.skip, out |-> Append(st.out, line), emitted |-> TRUE]
    ELSE IF ~st.skip
         THEN [st EXCEPT !.out = Append(@, line), !.emitted = TRUE]
         ELSE [st EXCEPT !.emitted = FALSE]

\* Mutant: a line that is dropped is replaced by a blank line.
FilterStep_BlankDropped(st, line) ==
    IF IsDiscontinuity(line)
    THEN LET c == st.count + 1
         IN  IF c = 1
             THEN [count |-> c, skip |-> FALSE, out |-> Append(st.out, line), emitted |-> TRUE]
             ELSE IF c % 2 = 0
                  THEN [count |-> c, skip |-> TRUE, out |-> Append(st.out, BlankLine), emitted |-> FALSE]
                  ELSE [count |-> c, skip |-> FALSE, out |-> Append(st.out, line), emitted |-> TRUE]
    ELSE IF ~st.skip
         THEN [st EXCEPT !.out = Append(@, line), !.emitted = TRUE]
         ELSE [st EXCEPT !.out = Append(@, BlankLine), !.emitted = FALSE]

\* One iteration of the for loop (lines 158-173).  emitted tells whether this
\* iteration appended its line.
FilterStep(st, line) ==
    IF IsDiscontinuity(line)
    THEN LET c == st.count + 1
         IN  IF c = 1
             THEN [count |-> c, skip |-> FALSE, out |-> Append(st.out, line), emitted |-> TRUE]
             ELSE IF c % 2 = 0
                  THEN [count |-> c, skip |-> TRUE, out |-> st.out, emitted |-> FALSE]
                  ELSE [count |-> c, skip |-> FALSE, out |-> Append(st.out, line), emitted |-> TRUE]
    ELSE IF ~st.skip
         THEN [st EXCEPT !.out = Append(@, line), !.emitted = TRUE]
         ELSE [st EXCEPT !.emitted = FALSE]

RECURSIVE FilterFold(_, _)
FilterFold(st, ls) ==
    IF ls = <<>> THEN st ELSE FilterFold(FilterStep(st, Head(ls)), Tail(ls))

\* The whole function, text to text.
filter_ad_segments(text) ==
    JoinLines(FilterFold(FilterInitState, StripSplit(text)).out)

-----------------------------------------------------------------------------
(* Segment names, the server, the files *)

\* urlparse(urljoin(base_url, line)).path, the part the line contributes:
\* the chunks before the query.  base_url ends in '/', so the basename of
\* the resolved path is the basename of this part.
RECURSIVE PathOf(_)
PathOf(line) ==
    IF line = <<>> \/ Head(line) = "?" THEN <<>>
    ELSE <<Head(line)>> \o PathOf(Tail(line))

\* os.path.basename: what follows the last '/'
RECURSIVE Basename(_)
Basename(path) ==
    IF path = <<>> THEN ""
    ELSE IF path[Len(path)] = "/" THEN ""
    ELSE Basename(SubSeq(path, 1, Len(path) - 1)) \o path[Len(path)]

\* Mutant: the synthetic name carries the 1-based progress counter.
SegmentFilename_ByIndex(line, n) ==
    IF Basename(PathOf(line)) = ""
    THEN "segment_" \o ToString(n + 1) \o ".ts"
    ELSE Basename(PathOf(line))

\* lines 341-345: the file name of a segment line, n = len(ts_files)
SegmentFilename(line, n) ==
    IF Basename(PathOf(line)) = ""
    THEN "segment_" \o ToString(n) \o ".ts"
    ELSE Basename(PathOf(line))

\* Segment lines the playlists are built from: two lines with the same
\* basename, one matched by '.ts?', one whose path ends in '/'.
LineA == <<"a", ".ts">>
LineDirA == <<"d", "/", "a", ".ts">>
LineB == <<"b", ".ts", "?", "k=1">>
LineQ == <<"q", "/", "?", "f=1", ".ts">>

SegmentAlphabet == {LineA, LineDirA, LineB, LineQ}

PlaylistAlphabet == SegmentAlphabet \cup {DiscLine}

PlaylistInputs == UNION {[1..n -> PlaylistAlphabet] : n \in 1..MaxPlaylist}

\* response.content of a successful GET of the line's URL
Body(line) ==
    IF line = LineA THEN <<1>>
    ELSE IF line = LineDirA THEN <<2, 3>>
    ELSE IF line = LineB THEN <<>>
    ELSE <<4>>

AllNames ==
    {SegmentFilename(l, n) : l \in SegmentAlphabet, n \in 0..(MaxPlaylist - 1)}

NoFile == [exists |-> FALSE, data |-> <<>>]
FileOf(d) == [exists |-> TRUE, data |-> d]

NoText == [exists |-> FALSE, text |-> <<BlankLine>>]
TextOf(t) == [exists |-> TRUE, text |-> t]

-----------------------------------------------------------------------------
(* Resume state store *)

\* The record file: absent, a JSON document, or bytes json.load rejects (a
\* file truncated by open(..., 'w') whose dump did not complete).
NoStateFile == [kind |-> "absent", downloaded_segments |-> <<>>, total_segments |-> 0]
CorruptStateFile == [kind |-> "corrupt", downloaded_segments |-> <<>>, total_segments |-> 0]

\* json.dump(state, f), completed
JsonOf(state) ==
    [kind |-> "json", downloaded_segments |-> state.downloaded_segments,
     total_segments |-> state.total_segments]

DefaultState == [downloaded_segments |-> <<>>, total_segments |-> 0]

\* load_download_state raises: only FileNotFoundError is caught (line 256),
\* json.load's JSONDecodeError is not.
LoadRaises(sf) == sf.kind = "corrupt"

\* load_download_state, when it returns
load_download_state(sf) ==
    IF sf.kind = "json"
    THEN [downloaded_segments |-> sf.downloaded_segments,
          total_segments |-> sf.total_segments]
    ELSE DefaultState

Range(s) == {s[i] : i \in 1..Len(s)}

\* the completed-set a run would load from the record now on disk
Persisted == Range(load_download_state(state_file).downloaded_segments)

\* Playlist URLs the store is called with, and
\* hashlib.md5(m3u8_url.encode()).hexdigest() of each.
UrlA == "https://h/a/index.m3u8"
UrlB == "https://h/b/index.m3u8"
Urls == {UrlA, UrlB}

Md5Hex(url) ==
    IF url = UrlA THEN "ae3e268a8f2bb430638304febb2b421e"
    ELSE "ed93993bda67479ce6f93f830909cefe"

\* Mutant: one record file whatever the URL.
get_download_state_filename_Fixed(m3u8_url) == "download_state.json"

\* lines 245-248
get_download_state_filename(m3u8_url) ==
    "download_state_" \o Md5Hex(m3u8_url) \o ".json"

StateNames == {get_download_state_filename(u) : u \in Urls}

\* the states save_download_state is called with: a list of names and a count
StoredNames == {"a.ts", "b.ts"}
StoredLists == UNION {[1..n -> StoredNames] : n \in 0..MaxStored}
StoreStates ==
    {[downloaded_segments |-> l, total_segments |-> t] :
        l \in StoredLists, t \in {0, MaxStored}}

-----------------------------------------------------------------------------
(* Idle values: the variables a specification does not use *)

FilterIdle ==
    /\ m3u8_content = <<BlankLine>>
    /\ fpc = "idle"
    /\ lines = <<>>
    /\ fpos = 0
    /\ filtered_lines = <<>>
    /\ discontinuity_count = 0
    /\ skip_segment = FALSE
    /\ kept = <<>>
    /\ filter_result = <<>>

RunIdle ==
    /\ downloaded_segments = {}
    /\ filtered_content = <<BlankLine>>
    /\ download_state = DefaultState
    /\ ts_files = <<>>
    /\ segment_index = 0
    /\ li = 0
    /\ response = <<>>
    /\ cat_pos = 0
    /\ cl = 0
    /\ remux = "none"

HistIdle ==
    /\ gets = <<>>
    /\ writes = <<>>
    /\ error = "none"
    /\ fail_line = 0
    /\ written_full = {}
    /\ dest_before = NoFile

WorldEmpty ==
    /\ state_file = NoStateFile
    /\ seg_files = [f \in AllNames |-> NoFile]
    /\ temp_m3u8 = NoText
    /\ temp_ts = NoFile
    /\ output_mp4 = "absent"

StoreIdle ==
    /\ state_dir = [f \in StateNames |-> NoStateFile]
    /\ spc = "idle"
    /\ store_url = UrlA
    /\ store_state = DefaultState
    /\ dir_before = [f \in StateNames |-> NoStateFile]
    /\ load_url = UrlA
    /\ loaded = DefaultState

NameIdle ==
    /\ output_filename = <<>>
    /\ npc = "idle"
    /\ final_name = <<>>

SideIdle == StoreIdle /\ NameIdle

PipeIdle ==
    /\ upstream = <<BlankLine>>
    /\ WorldEmpty
    /\ pc = "idle"
    /\ runs = 0
    /\ RunIdle
    /\ HistIdle

-----------------------------------------------------------------------------
(* Inputs of the filter *)

FilterAlphabet == {DiscLine, DiscSeqLine, InfLine, Seg(1), BlankLine}

\* The worked example: 7 markers, 10 segments, segments 3-4 between markers
\* 2 and 3, segments 7-8 between markers 4 and 5.
Example7 ==
    << DiscLine, Seg(1), Seg(2), DiscLine, Seg(3), Seg(4), DiscLine, Seg(5),
       Seg(6), DiscLine, Seg(7), Seg(8), DiscLine, Seg(9), DiscLine, DiscLine,
       Seg(10) >>

\* A manifest with 5 markers and content in every span.
Example5 ==
    << Seg(1), DiscLine, Seg(2), DiscLine, Seg(3), DiscLine, Seg(4), DiscLine,
       Seg(5), DiscLine, Seg(6) >>

FilterInputs ==
    UNION {[1..n -> FilterAlphabet] : n \in 1..MaxLines} \cup {Example7, Example5}

-----------------------------------------------------------------------------
(* filter_ad_segments as a state machine *)

FilterInit ==
    /\ m3u8_content \in FilterInputs
    /\ fpc = "start"
    /\ lines = <<>>
    /\ fpos = 0
    /\ filtered_lines = <<>>
    /\ discontinuity_count = 0
    /\ skip_segment = FALSE
    /\ kept = <<>>
    /\ filter_result = <<>>
    /\ PipeIdle
    /\ SideIdle

\* lines 151-155
FilterStart ==
    /\ fpc = "start"
    /\ lines' = StripSplit(m3u8_content)
    /\ filtered_lines' = <<>>
    /\ discontinuity_count' = 0
    /\ skip_segment' = FALSE
    /\ fpos' = 0
    /\ kept' = <<>>
    /\ fpc' = "loop"
    /\ UNCHANGED <<m3u8_content, filter_result, pipeVars, sideVars>>

\* lines 157-173, one line of the manifest
FilterLoop ==
    /\ fpc = "loop"
    /\ fpos < Len(lines)
    /\ LET st == FilterStep([count |-> discontinuity_count, skip |-> skip_segment,
                             out |-> filtered_lines, emitted |-> FALSE],
                            lines[fpos + 1])
       IN  /\ discontinuity_count' = st.count
           /\ skip_segment' = st.skip
           /\ filtered_lines' = st.out
           /\ kept' = IF st.emitted THEN Append(kept, fpos + 1) ELSE kept
    /\ fpos' = fpos + 1
    /\ UNCHANGED <<m3u8_content, lines, fpc, filter_result, pipeVars, sideVars>>

\* line 175
FilterReturn ==
    /\ fpc = "loop"
    /\ fpos = Len(lines)
    /\ filter_result' = JoinLines(filtered_lines)
    /\ fpc' = "done"
    /\ UNCHANGED <<m3u8_content, lines, fpos, filtered_lines,
                   discontinuity_count, skip_segment, kept, pipeVars, sideVars>>

FilterNext == FilterStart \/ FilterLoop \/ FilterReturn

SpecFilter == FilterInit /\ [][FilterNext]_vars

-----------------------------------------------------------------------------
(* download_ts_segments_with_resume *)

\* line 324
FetchLines == StripSplit(filtered_content)

\* line 332
CountSegments(ls) == Cardinality({i \in 1..Len(ls) : IsSegmentLine(ls[i])})

\* the line the loop is at, and the file name lines 341-345 give it
CurLine == FetchLines[li + 1]
CurName == SegmentFilename(CurLine, Len(ts_files))

\* Mutant: the resume check is made against nothing (every segment is fetched).
AlreadyDownloaded_Never(name) == FALSE

\* line 348: membership in the set that was passed in, which the loop
\* never updates
AlreadyDownloaded(name) == name \in downloaded_segments

\* Mutant: the name just downloaded is not put on the list.
MarkDownloaded_Never(state, name) == state

\* Mutant: the name is appended without the membership test of line 364.
MarkDownloaded_Always(state, name) ==
    [state EXCEPT !.downloaded_segments = Append(@, name)]

\* lines 364-366: downloaded_list is download_state's own list
MarkDownloaded(state, name) ==
    IF name \in Range(state.downloaded_segments)
    THEN state
    ELSE [state EXCEPT !.downloaded_segments = Append(@, name)]

\* the proper prefixes of a body: what an interrupted f.write leaves
ProperPrefixes(d) == {SubSeq(d, 1, k) : k \in 0..(Len(d) - 1)}

\* Mutant: the except clause prints and does not re-raise.
Raise_LogOnly(what) ==
    /\ pc' = "fetch_loop"
    /\ error' = what

\* an exception leaves the function (line 371 re-raises what line 369 caught)
Raise(what) ==
    /\ pc' = "raised"
    /\ error' = what

\* lines 324-336: load the record, count, save the total
FetchInit ==
    /\ pc = "fetch_init"
    /\ IF LoadRaises(state_file)
       THEN /\ Raise("load")
            /\ UNCHANGED <<state_file, download_state>>
       ELSE LET st == [load_download_state(state_file) EXCEPT
                          !.total_segments = CountSegments(FetchLines)]
            IN  \/ /\ state_file' = JsonOf(st)
                   /\ download_state' = st
                   /\ pc' = "fetch_loop"
                   /\ error' = error
                \/ /\ state_file' \in {state_file, CorruptStateFile}
                   /\ download_state' = st
                   /\ Raise("save")
    /\ ts_files' = <<>>
    /\ segment_index' = 0
    /\ li' = 0
    /\ UNCHANGED <<upstream, seg_files, temp_m3u8, temp_ts, output_mp4>>
    /\ UNCHANGED <<runs, downloaded_segments, filtered_content, response, cat_pos, cl, remux>>
    /\ UNCHANGED <<gets, writes, fail_line, written_full, dest_before>>
    /\ UNCHANGED <<filterVars, sideVars>>

\* lines 337-351: the loop head, up to the resume check
FetchLoop ==
    /\ pc = "fetch_loop"
    /\ li < Len(FetchLines)
    /\ \/ /\ ~IsSegmentLine(CurLine)
          /\ li' = li + 1
          /\ UNCHANGED <<pc, ts_files, segment_index>>
       \/ /\ IsSegmentLine(CurLine)
          /\ AlreadyDownloaded(CurName)
          /\ segment_index' = segment_index + 1
          /\ ts_files' = Append(ts_files, CurName)
          /\ li' = li + 1
          /\ pc' = pc
       \/ /\ IsSegmentLine(CurLine)
          /\ ~AlreadyDownloaded(CurName)
          /\ segment_index' = segment_index + 1
          /\ pc' = "fetch_get"
          /\ UNCHANGED <<ts_files, li>>
    /\ UNCHANGED worldVars
    /\ UNCHANGED <<runs, downloaded_segments, filtered_content, download_state,
                   response, cat_pos, cl, remux>>
    /\ UNCHANGED histVars
    /\ UNCHANGED <<filterVars, sideVars>>

\* lines 355-356: requests.get and raise_for_status
FetchGet ==
    /\ pc = "fetch_get"
    /\ gets' = Append(gets, li + 1)
    /\ \/ /\ response' = Body(CurLine)
          /\ pc' = "fetch_write"
          /\ UNCHANGED <<error, fail_line>>
       \/ /\ Raise("get")
          /\ fail_line' = li + 1
          /\ UNCHANGED response
    /\ UNCHANGED worldVars
    /\ UNCHANGED <<runs, downloaded_segments, filtered_content, download_state,
                   ts_files, segment_index, li, cat_pos, cl, remux>>
    /\ UNCHANGED <<writes, written_full, dest_before>>
    /\ UNCHANGED <<filterVars, sideVars>>

\* lines 358-359: open(filename, 'wb') and write the body
FetchWrite ==
    /\ pc = "fetch_write"
    /\ writes' = Append(writes, li + 1)
    /\ \/ /\ seg_files' = [seg_files EXCEPT ![CurName] = FileOf(response)]
          /\ written_full' = written_full \cup {CurName}
          /\ pc' = "fetch_save"
          /\ error' = error
       \/ /\ \E d \in ProperPrefixes(response) :
                seg_files' = [seg_files EXCEPT ![CurName] = FileOf(d)]
          /\ written_full' = written_full \ {CurName}
          /\ Raise("write")
    /\ UNCHANGED <<upstream, state_file, temp_m3u8, temp_ts, output_mp4>>
    /\ UNCHANGED <<runs, downloaded_segments, filtered_content, download_state,
                   ts_files, segment_index, li, response, cat_pos, cl, remux>>
    /\ UNCHANGED <<gets, fail_line, dest_before>>
    /\ UNCHANGED <<filterVars, sideVars>>

\* lines 361-367: append to ts_files, mark, write the record through
FetchSave ==
    /\ pc = "fetch_save"
    /\ ts_files' = Append(ts_files, CurName)
    /\ download_state' = MarkDownloaded(download_state, CurName)
    /\ \/ /\ state_file' = JsonOf(download_state')
          /\ li' = li + 1
          /\ pc' = "fetch_loop"
          /\ error' = error
       \/ /\ state_file' \in {state_file, CorruptStateFile}
          /\ li' = li
          /\ Raise("save")
    /\ UNCHANGED <<upstream, seg_files, temp_m3u8, temp_ts, output_mp4>>
    /\ UNCHANGED <<runs, downloaded_segments, filtered_content, segment_index,
                   response, cat_pos, cl, remux>>
    /\ UNCHANGED <<gets, writes, fail_line, written_full, dest_before>>
    /\ UNCHANGED <<filterVars, sideVars>>

\* line 373
FetchReturn ==
    /\ pc = "fetch_loop"
    /\ li = Len(FetchLines)
    /\ pc' = "cat_open"
    /\ UNCHANGED worldVars
    /\ UNCHANGED <<runs, downloaded_segments, filtered_content, download_state,
                   ts_files, segment_index, li, response, cat_pos, cl, remux>>
    /\ UNCHANGED histVars
    /\ UNCHANGED <<filterVars, sideVars>>

FetchNext ==
    FetchInit \/ FetchLoop \/ FetchGet \/ FetchWrite \/ FetchSave \/ FetchReturn

RECURSIVE SetToSeq(_)
SetToSeq(S) ==
    IF S = {} THEN <<>>
    ELSE LET x == CHOOSE y \in S : TRUE IN <<x>> \o SetToSeq(S \ {x})

\* names a record left by earlier runs may hold
CompletedCandidates ==
    {SegmentFilename(LineA, 0), SegmentFilename(LineB, 0), SegmentFilename(LineQ, 1)}

\* The fetcher called on any filtered playlist with any completed-set: the
\* record on disk holds that set, the files it names exist.
FetchInputsInit ==
    /\ FilterIdle
    /\ SideIdle
    /\ upstream = <<BlankLine>>
    /\ filtered_content \in PlaylistInputs
    /\ downloaded_segments \in SUBSET CompletedCandidates
    /\ state_file \in
          {JsonOf([downloaded_segments |-> SetToSeq(downloaded_segments),
                   total_segments |-> 0])}
          \cup (IF downloaded_segments = {} THEN {NoStateFile} ELSE {})
    /\ seg_files = [f \in AllNames |->
                      IF f \in downloaded_segments THEN FileOf(<<7>>) ELSE NoFile]
    /\ temp_m3u8 = TextOf(filtered_content)
    /\ temp_ts = NoFile
    /\ output_mp4 = "absent"
    /\ pc = "fetch_init"
    /\ runs = 1
    /\ download_state = DefaultState
    /\ ts_files = <<>>
    /\ segment_index = 0
    /\ li = 0
    /\ response = <<>>
    /\ cat_pos = 0
    /\ cl = 0
    /\ remux = "none"
    /\ gets = <<>>
    /\ writes = <<>>
    /\ error = "none"
    /\ fail_line = 0
    /\ written_full = downloaded_segments
    /\ dest_before = NoFile

SpecFetch == FetchInputsInit /\ [][FetchNext]_vars

-----------------------------------------------------------------------------
(* concatenate_videos *)

\* Mutant: the chunk read is put in front of what was written so far.
AppendBytes_InFront(dst, src) == src \o dst

\* line 224: outfile.write(infile.read())
AppendBytes(dst, src) == dst \o src

\* line 221: open(output_filename, 'wb') creates or truncates the destination
CatOpen ==
    /\ pc = "cat_open"
    /\ temp_ts' = FileOf(<<>>)
    /\ dest_before' = temp_ts
    /\ cat_pos' = 0
    /\ pc' = "cat_loop"
    /\ UNCHANGED <<upstream, state_file, seg_files, temp_m3u8, output_mp4>>
    /\ UNCHANGED <<runs, downloaded_segments, filtered_content, download_state,
                   ts_files, segment_index, li, response, cl, remux>>
    /\ UNCHANGED <<gets, writes, error, fail_line, written_full>>
    /\ UNCHANGED <<filterVars, sideVars>>

\* lines 222-224: one input file; open(ts_file, 'rb') raises when it is missing
CatLoop ==
    /\ pc = "cat_loop"
    /\ cat_pos < Len(ts_files)
    /\ IF seg_files[ts_files[cat_pos + 1]].exists
       THEN /\ temp_ts' = FileOf(AppendBytes(temp_ts.data,
                                             seg_files[ts_files[cat_pos + 1]].data))
            /\ cat_pos' = cat_pos + 1
            /\ UNCHANGED <<pc, error>>
       ELSE /\ Raise("read")
            /\ UNCHANGED <<temp_ts, cat_pos>>
    /\ UNCHANGED <<upstream, state_file, seg_files, temp_m3u8, output_mp4>>
    /\ UNCHANGED <<runs, downloaded_segments, filtered_content, download_state,
                   ts_files, segment_index, li, response, cl, remux>>
    /\ UNCHANGED <<gets, writes, fail_line, written_full, dest_before>>
    /\ UNCHANGED <<filterVars, sideVars>>

\* the with block closes; concatenate_videos returns
CatReturn ==
    /\ pc = "cat_loop"
    /\ cat_pos = Len(ts_files)
    /\ pc' = "convert"
    /\ UNCHANGED worldVars
    /\ UNCHANGED <<runs, downloaded_segments, filtered_content, download_state,
                   ts_files, segment_index, li, response, cat_pos, cl, remux>>
    /\ UNCHANGED histVars
    /\ UNCHANGED <<filterVars, sideVars>>

CatNext == CatOpen \/ CatLoop \/ CatReturn

\* the three-file example: 10 bytes, none, 7 bytes
ExampleFiles == <<"a.ts", "b.ts", "segment_0.ts">>
ExampleData ==
    [f \in AllNames |->
        IF f = "a.ts" THEN FileOf(<<1, 2, 3, 4, 5, 6, 7, 8, 9, 10>>)
        ELSE IF f = "b.ts" THEN FileOf(<<>>)
        ELSE IF f = "segment_0.ts" THEN FileOf(<<11, 12, 13, 14, 15, 16, 17>>)
        ELSE NoFile]

CatNames == {"a.ts", "b.ts", "segment_0.ts"}
CatContents == {NoFile, FileOf(<<>>), FileOf(<<1>>), FileOf(<<2, 3>>)}

\* concatenate_videos called on any list of names over any directory content
CatInputsInit ==
    /\ FilterIdle
    /\ SideIdle
    /\ upstream = <<BlankLine>>
    /\ \/ /\ ts_files \in UNION {[1..n -> CatNames] : n \in 0..MaxPlaylist}
          /\ \E c \in [CatNames -> CatContents] :
                seg_files = [f \in AllNames |-> IF f \in CatNames THEN c[f] ELSE NoFile]
       \/ /\ ts_files = ExampleFiles
          /\ seg_files = ExampleData
    /\ state_file = NoStateFile
    /\ temp_m3u8 = NoText
    /\ temp_ts \in {NoFile, FileOf(<<9>>)}
    /\ output_mp4 = "absent"
    /\ pc = "cat_open"
    /\ runs = 1
    /\ downloaded_segments = {}
    /\ filtered_content = <<BlankLine>>
    /\ download_state = DefaultState
    /\ segment_index = 0
    /\ li = 0
    /\ response = <<>>
    /\ cat_pos = 0
    /\ cl = 0
    /\ remux = "none"
    /\ HistIdle

SpecCat == CatInputsInit /\ [][CatNext]_vars

-----------------------------------------------------------------------------
(* save_download_state and load_download_state, called in any order *)

\* the working directory holds no record yet
StoreInit ==
    /\ FilterIdle
    /\ PipeIdle
    /\ NameIdle
    /\ state_dir = [f \in StateNames |-> NoStateFile]
    /\ spc = "ready"
    /\ store_url = UrlA
    /\ store_state = DefaultState
    /\ dir_before = [f \in StateNames |-> NoStateFile]
    /\ load_url = UrlA
    /\ loaded = DefaultState

\* lines 259-263: the call returns with the record written, or raises with
\* the file untouched (open failed) or truncated (dump did not complete)
StoreSave ==
    /\ spc # "idle"
    /\ \E u \in Urls :
          LET f == get_download_state_filename(u)
          IN  /\ \/ \E st \in StoreStates :
                       /\ state_dir' = [state_dir EXCEPT ![f] = JsonOf(st)]
                       /\ store_state' = st
                       /\ spc' = "saved"
                 \/ /\ state_dir' \in {state_dir, [state_dir EXCEPT ![f] = CorruptStateFile]}
                    /\ store_state' = DefaultState
                    /\ spc' = "save_raised"
              /\ store_url' = u
              /\ dir_before' = [state_dir EXCEPT ![f] = NoStateFile]
              /\ load_url' = u
              /\ loaded' = DefaultState
    /\ UNCHANGED <<filterVars, pipeVars, nameVars>>

\* lines 250-257, called after a save that returned
StoreLoad ==
    /\ spc \in {"saved", "loaded", "load_raised"}
    /\ \E u \in Urls :
          LET sf == state_dir[get_download_state_filename(u)]
          IN  /\ load_url' = u
              /\ IF LoadRaises(sf)
                 THEN spc' = "load_raised" /\ loaded' = loaded
                 ELSE spc' = "loaded" /\ loaded' = load_download_state(sf)
    /\ UNCHANGED <<state_dir, store_url, store_state, dir_before>>
    /\ UNCHANGED <<filterVars, pipeVars, nameVars>>

StoreNext == StoreSave \/ StoreLoad

SpecStore == StoreInit /\ [][StoreNext]_vars

-----------------------------------------------------------------------------
(* Output name normalisation (lines 19-20 and 270-271) *)

\* A name is a tuple of chunks, '.' and '/' being chunks of their own:
\* <<"dir", "/", "video", ".", "mkv">> is 'dir/video.mkv'.
NameChunks == {"video", "dir", "mkv", "mp4", ".", "/"}
NameInputs == UNION {[1..n -> NameChunks] : n \in 0..MaxNameLen}

Mp4Ext == <<".", "mp4">>

\* output_filename.endswith('.mp4')
EndsWithMp4(name) ==
    /\ Len(name) >= 2
    /\ name[Len(name) - 1] = "."
    /\ name[Len(name)] = "mp4"

\* output_filename.rsplit('.', 1)[0]: what precedes the last '.' of the whole
\* string, the whole string when it has none
RECURSIVE RSplitDotHead(_)
RSplitDotHead(name) ==
    IF \A i \in 1..Len(name) : name[i] # "." THEN name
    ELSE IF name[Len(name)] = "." THEN SubSeq(name, 1, Len(name) - 1)
    ELSE RSplitDotHead(SubSeq(name, 1, Len(name) - 1))

\* lines 270-271 (and 19-20)
NormalizeOutputName(name) ==
    IF EndsWithMp4(name) THEN name ELSE RSplitDotHead(name) \o Mp4Ext

NameInit ==
    /\ FilterIdle
    /\ PipeIdle
    /\ StoreIdle
    /\ output_filename \in NameInputs
    /\ npc = "start"
    /\ final_name = <<>>

\* download_m3u8_video_to_mp4, lines 19-20
NormalizePlain ==
    /\ npc = "start"
    /\ final_name' = NormalizeOutputName(output_filename)
    /\ npc' = "plain"
    /\ UNCHANGED output_filename
    /\ UNCHANGED <<filterVars, pipeVars, storeVars>>

\* download_m3u8_video_to_mp4_with_resume, lines 270-271
NormalizeResume ==
    /\ npc = "start"
    /\ final_name' = NormalizeOutputName(output_filename)
    /\ npc' = "resume"
    /\ UNCHANGED output_filename
    /\ UNCHANGED <<filterVars, pipeVars, storeVars>>

NameNext == NormalizePlain \/ NormalizeResume

SpecName == NameInit /\ [][NameNext]_vars

-----------------------------------------------------------------------------
(* download_m3u8_video_to_mp4_with_resume *)

Ended == pc \in {"done", "raised", "crashed"}

\* lines 269-280: a run starts and loads the record
StartRun ==
    /\ pc = "idle" \/ Ended
    /\ runs < MaxRuns
    /\ runs' = runs + 1
    /\ IF LoadRaises(state_file)
       THEN /\ Raise("load")
            /\ downloaded_segments' = {}
       ELSE /\ downloaded_segments' = Range(load_download_state(state_file).downloaded_segments)
            /\ pc' = "get_manifest"
            /\ error' = "none"
    /\ filtered_content' = <<BlankLine>>
    /\ download_state' = DefaultState
    /\ ts_files' = <<>>
    /\ segment_index' = 0
    /\ li' = 0
    /\ response' = <<>>
    /\ cat_pos' = 0
    /\ cl' = 0
    /\ remux' = "none"
    /\ gets' = <<>>
    /\ writes' = <<>>
    /\ fail_line' = IF pc = "raised" /\ error = "get" THEN fail_line ELSE 0
    /\ UNCHANGED worldVars
    /\ UNCHANGED <<written_full, dest_before>>
    /\ UNCHANGED <<filterVars, sideVars>>

\* lines 283-289: GET the manifest, filter it
GetManifest ==
    /\ pc = "get_manifest"
    /\ \/ /\ filtered_content' = filter_ad_segments(upstream)
          /\ pc' = "write_temp"
          /\ error' = error
       \/ /\ Raise("get_manifest")
          /\ UNCHANGED filtered_content
    /\ UNCHANGED worldVars
    /\ UNCHANGED <<runs, downloaded_segments, download_state, ts_files,
                   segment_index, li, response, cat_pos, cl, remux>>
    /\ UNCHANGED <<gets, writes, fail_line, written_full, dest_before>>
    /\ UNCHANGED <<filterVars, sideVars>>

\* lines 292-300: write temp_filtered.m3u8, call the fetcher
WriteTempManifest ==
    /\ pc = "write_temp"
    /\ temp_m3u8' = TextOf(filtered_content)
    /\ pc' = "fetch_init"
    /\ UNCHANGED <<upstream, state_file, seg_files, temp_ts, output_mp4>>
    /\ UNCHANGED <<runs, downloaded_segments, filtered_content, download_state,
                   ts_files, segment_index, li, response, cat_pos, cl, remux>>
    /\ UNCHANGED histVars
    /\ UNCHANGED <<filterVars, sideVars>>

RemuxOutcomes == {"copy_ok", "reencode_ok", "both_failed", "no_ffmpeg"}

\* convert_ts_to_mp4 (lines 59-96) returns normally however ffmpeg ended:
\* FileNotFoundError and CalledProcessError are caught and printed.
ConvertReturns(outcome) == TRUE

\* line 307
Convert ==
    /\ pc = "convert"
    /\ \E outcome \in RemuxOutcomes :
          /\ remux' = outcome
          /\ output_mp4' = IF outcome \in {"copy_ok", "reencode_ok"}
                           THEN "present" ELSE output_mp4
          /\ IF ConvertReturns(outcome)
             THEN pc' = "cleanup_m3u8" /\ error' = error
             ELSE Raise("convert")
    /\ UNCHANGED <<upstream, state_file, seg_files, temp_m3u8, temp_ts>>
    /\ UNCHANGED <<runs, downloaded_segments, filtered_content, download_state,
                   ts_files, segment_index, li, response, cat_pos, cl>>
    /\ UNCHANGED <<gets, writes, fail_line, written_full, dest_before>>
    /\ UNCHANGED <<filterVars, sideVars>>

\* cleanup_temp_files, line 235; any exception ends the cleanup (line 239)
CleanupManifest ==
    /\ pc = "cleanup_m3u8"
    /\ IF temp_m3u8.exists
       THEN temp_m3u8' = NoText /\ pc' = "cleanup_segs"
       ELSE temp_m3u8' = temp_m3u8 /\ pc' = "rm_temp_ts"
    /\ cl' = 0
    /\ UNCHANGED <<upstream, state_file, seg_files, temp_ts, output_mp4>>
    /\ UNCHANGED <<runs, downloaded_segments, filtered_content, download_state,
                   ts_files, segment_index, li, response, cat_pos, remux>>
    /\ UNCHANGED histVars
    /\ UNCHANGED <<filterVars, sideVars>>

\* cleanup_temp_files, lines 236-240: os.remove of a name already removed
\* raises, which ends the cleanup
CleanupSegments ==
    /\ pc = "cleanup_segs"
    /\ \/ /\ cl < Len(ts_files)
          /\ seg_files[ts_files[cl + 1]].exists
          /\ seg_files' = [seg_files EXCEPT ![ts_files[cl + 1]] = NoFile]
          /\ cl' = cl + 1
          /\ pc' = pc
       \/ /\ cl < Len(ts_files)
          /\ ~seg_files[ts_files[cl + 1]].exists
          /\ pc' = "rm_temp_ts"
          /\ UNCHANGED <<seg_files, cl>>
       \/ /\ cl = Len(ts_files)
          /\ pc' = "rm_temp_ts"
          /\ UNCHANGED <<seg_files, cl>>
    /\ UNCHANGED <<upstream, state_file, temp_m3u8, temp_ts, output_mp4>>
    /\ UNCHANGED <<runs, downloaded_segments, filtered_content, download_state,
                   ts_files, segment_index, li, response, cat_pos, remux>>
    /\ UNCHANGED histVars
    /\ UNCHANGED <<filterVars, sideVars>>

\* lines 311-312
RemoveTempTs ==
    /\ pc = "rm_temp_ts"
    /\ IF temp_ts.exists
       THEN temp_ts' = NoFile /\ pc' = "rm_state"
       ELSE temp_ts' = temp_ts /\ pc' = "done"
    /\ UNCHANGED <<upstream, state_file, seg_files, temp_m3u8, output_mp4>>
    /\ UNCHANGED <<runs, downloaded_segments, filtered_content, download_state,
                   ts_files, segment_index, li, response, cat_pos, cl, remux>>
    /\ UNCHANGED histVars
    /\ UNCHANGED <<filterVars, sideVars>>

\* lines 314-318
RemoveState ==
    /\ pc = "rm_state"
    /\ state_file' = IF state_file.kind # "absent" THEN NoStateFile ELSE state_file
    /\ pc' = "done"
    /\ UNCHANGED <<upstream, seg_files, temp_m3u8, temp_ts, output_mp4>>
    /\ UNCHANGED <<runs, downloaded_segments, filtered_content, download_state,
                   ts_files, segment_index, li, response, cat_pos, cl, remux>>
    /\ UNCHANGED histVars
    /\ UNCHANGED <<filterVars, sideVars>>

\* the process is interrupted or killed between two steps
Crash ==
    /\ pc \notin {"idle", "done", "raised", "crashed"}
    /\ pc' = "crashed"
    /\ UNCHANGED worldVars
    /\ UNCHANGED <<runs, downloaded_segments, filtered_content, download_state,
                   ts_files, segment_index, li, response, cat_pos, cl, remux>>
    /\ UNCHANGED histVars
    /\ UNCHANGED <<filterVars, sideVars>>

Init ==
    /\ FilterIdle
    /\ SideIdle
    /\ upstream \in PlaylistInputs
    /\ WorldEmpty
    /\ pc = "idle"
    /\ runs = 0
    /\ RunIdle
    /\ HistIdle

Next ==
    \/ StartRun \/ GetManifest \/ WriteTempManifest
    \/ FetchNext
    \/ CatNext
    \/ Convert
    \/ CleanupManifest \/ CleanupSegments \/ RemoveTempTs \/ RemoveState
    \/ Crash

Spec == Init /\ [][Next]_vars

\* manifests the server may switch to between two runs
ChangedManifests == {<<l>> : l \in SegmentAlphabet}

\* between two runs the server starts serving another manifest at m3u8_url
\* (line 283 reads whatever is served when the run gets there)
ManifestChanges ==
    /\ Ended
    /\ runs < MaxRuns
    /\ upstream' \in ChangedManifests \ {upstream}
    /\ UNCHANGED <<state_file, seg_files, temp_m3u8, temp_ts, output_mp4>>
    /\ UNCHANGED <<runVars, histVars>>
    /\ UNCHANGED <<filterVars, sideVars>>

NextChange == Next \/ ManifestChanges

SpecChange == Init /\ [][NextChange]_vars

-----------------------------------------------------------------------------
(* Properties of filter_ad_segments (checked under SpecFilter) *)

\* number of discontinuity markers among the first i - 1 lines of ls
MarkersBefore(ls, i) == Cardinality({j \in 1..(i - 1) : IsDiscontinuity(ls[j])})

MarkerAfter(ls, i) == \E j \in (i + 1)..Len(ls) : IsDiscontinuity(ls[j])

NumMarkers(ls) == MarkersBefore(ls, Len(ls) + 1)

IsContent(line) == line # BlankLine /\ ~IsDiscontinuity(line)

\* the content lines of a text: neither markers nor blank
ContentLines(text) == SelectSeq(text, IsContent)

\* the line sits in an ad span: an even number (>= 2) of markers precede it
InEvenSpan(ls, i) == MarkersBefore(ls, i) >= 2 /\ MarkersBefore(ls, i) % 2 = 0

\* C1: when filter_ad_segments returns, the output is the input lines at the
\* kept positions; every non-marker line strictly between the 2k-th and the
\* (2k+1)-th marker is not kept; every non-marker line before the 1st marker
\* or after an odd-numbered marker is kept; and the 7-marker, 10-segment
\* example retains exactly segments 1, 2, 5, 6, 9, 10.
C1_AdSpansRemoved ==
    fpc = "done" =>
        /\ filtered_lines = [j \in 1..Len(kept) |-> lines[kept[j]]]
        /\ \A i \in 1..Len(lines) :
              ~IsDiscontinuity(lines[i]) =>
                  /\ (InEvenSpan(lines, i) /\ MarkerAfter(lines, i)) => i \notin Range(kept)
                  /\ (MarkersBefore(lines, i) = 0 \/ MarkersBefore(lines, i) % 2 = 1)
                         => i \in Range(kept)
        /\ m3u8_content = Example7 =>
              SelectSeq(filter_result, IsSegmentLine)
                  = <<Seg(1), Seg(2), Seg(5), Seg(6), Seg(9), Seg(10)>>

\* C1 witness: the worked example has been filtered.
C1_Witness ==
    /\ fpc = "done"
    /\ m3u8_content = Example7
    /\ NumMarkers(lines) = 7
    /\ Len(filtered_lines) < Len(lines)

\* C2: on a manifest with exactly one discontinuity marker the filter returns
\* the line sequence it was given (the lines of the stripped text), marker
\* included, in order.
C2_OneMarkerNoOp ==
    (fpc = "done" /\ NumMarkers(lines) = 1) =>
        /\ filtered_lines = lines
        /\ filter_result = StripSplit(m3u8_content)

\* C2 witness: a one-marker manifest with content on both sides of the marker.
C2_Witness ==
    /\ fpc = "done"
    /\ NumMarkers(lines) = 1
    /\ Len(lines) >= 3
    /\ IsDiscontinuity(lines[2])
    /\ IsContent(lines[1]) /\ IsContent(lines[3])

\* C3 as stated in the specification: filtering the filtered manifest again keeps the same
\* content lines.
C3_Idempotent ==
    fpc = "done" =>
        ContentLines(filter_ad_segments(filter_result)) = ContentLines(filter_result)

\* C3 amended: a second pass applies the parity rule to the surviving,
\* renumbered markers; it keeps the same content lines exactly when no content
\* line of the filtered manifest follows an even-numbered surviving marker
\* (so always when at most one marker survives).
C3_SecondPassByNewCount ==
    fpc = "done" =>
        LET fl == StripSplit(filter_result)
        IN  (ContentLines(filter_ad_segments(filter_result)) = ContentLines(filter_result))
            <=> ~ \E i \in 1..Len(fl) : IsContent(fl[i]) /\ InEvenSpan(fl, i)

\* C3 witness: the 5-marker manifest, whose second pass removes more content.
C3_Witness ==
    /\ fpc = "done"
    /\ m3u8_content = Example5
    /\ NumMarkers(lines) = 5
    /\ NumMarkers(filter_result) = 3
    /\ ContentLines(filter_ad_segments(filter_result)) # ContentLines(filter_result)

-----------------------------------------------------------------------------
(* Properties of the fetcher, the assembler and the orchestrator *)

\* the segment lines of a playlist, by line number
SegmentLinesOf(ls) == {i \in 1..Len(ls) : IsSegmentLine(ls[i])}

\* number of segment lines before line i: the segment's 0-based ordinal
SegmentOrdinal(ls, i) == Cardinality({j \in SegmentLinesOf(ls) : j < i})

\* the file name of the segment at line i of the playlist
NameAt(ls, i) == SegmentFilename(ls[i], SegmentOrdinal(ls, i))

Increasing(s) == \A i, j \in 1..Len(s) : i < j => s[i] < s[j]

\* C4: when a pass of download_ts_segments_with_resume returns, a GET has
\* been issued, once and in playlist order, for exactly the segment lines
\* whose file name is not in the completed-set it was given, and the returned
\* list holds the file name of every segment line, skipped ones included, in
\* playlist order.
C4_ResumeCorrect ==
    pc = "cat_open" =>
        LET ls == FetchLines
        IN  /\ Range(gets) = {i \in SegmentLinesOf(ls) : NameAt(ls, i) \notin downloaded_segments}
            /\ Increasing(gets)
            /\ Len(ts_files) = Cardinality(SegmentLinesOf(ls))
            /\ \A i \in SegmentLinesOf(ls) :
                  ts_files[SegmentOrdinal(ls, i) + 1] = NameAt(ls, i)

\* C4 witness: three segments, only the middle one completed before the pass.
C4_Witness ==
    /\ pc = "cat_open"
    /\ filtered_content = <<LineA, LineB, LineQ>>
    /\ downloaded_segments = {"b.ts"}
    /\ gets = <<1, 3>>
    /\ ts_files = <<"a.ts", "b.ts", "segment_2.ts">>

\* no segment URI occurs twice in the playlist
DistinctSegmentLines(ls) ==
    \A i, j \in SegmentLinesOf(ls) : i # j => ls[i] # ls[j]

\* C5, for playlists that list no segment URI twice: every name in
\* the persisted record has had a full body written to its file (and no
\* partial write since), and the segment whose GET or file write just failed
\* is not in the persisted record.
C5_WriteThenMark ==
    DistinctSegmentLines(FetchLines) =>
        /\ \A f \in Persisted : f \in written_full
        /\ (pc = "raised" /\ error \in {"get", "write"}) => CurName \notin Persisted

\* C6: once the conversion has failed in a run (both attempts, or
\* no ffmpeg), the record, the segment files, the temporary manifest and the
\* temporary stream file all stay on disk.
C6_KeptOnRemuxFailure ==
    remux \in {"both_failed", "no_ffmpeg"} =>
        /\ state_file.kind # "absent"
        /\ \A i \in 1..Len(ts_files) : seg_files[ts_files[i]].exists
        /\ temp_m3u8.exists
        /\ temp_ts.exists

\* C7: no run ends because load_download_state raised.
C7_LoadNeverFails == ~(pc = "raised" /\ error = "load")

\* C8, the aborted pass: the failed GET is the last one issued, no file write
\* was begun for its line, every earlier segment is in the persisted record
\* and the failed one is not.
C8_Abort ==
    (pc = "raised" /\ error = "get") =>
        LET ls == FetchLines
        IN  /\ gets[Len(gets)] = fail_line
            /\ fail_line \notin Range(writes)
            /\ \A j \in SegmentLinesOf(ls) : j < fail_line => NameAt(ls, j) \in Persisted
            /\ NameAt(ls, fail_line) \notin Persisted

\* C8, the run after it: GETs go only to the failed line and to later lines,
\* and only to segments not in the completed-set.
C8_Resume ==
    (fail_line # 0 /\ ~(pc = "raised" /\ error = "get") /\ pc # "idle" /\ gets # <<>>) =>
        LET ls == FetchLines
        IN  \A k \in 1..Len(gets) :
               /\ gets[k] >= fail_line
               /\ NameAt(ls, gets[k]) \notin downloaded_segments

\* C8, for playlists that list no segment URI twice: when the GET of a
\* segment fails the pass aborts with that GET as its last one, no file write
\* is begun for it, and the persisted completed-set does not hold its name;
\* the run after issues GETs only for lines from the failed one on whose
\* name is not in the completed-set.
C8_AbortAndResume ==
    DistinctSegmentLines(FetchLines) => (C8_Abort /\ C8_Resume)

\* C9, first half: wherever a run stopped, every recorded segment has its file.
C9_RecordedHasFile ==
    pc \in {"raised", "crashed"} => \A f \in Persisted : seg_files[f].exists

\* C9, second half: wherever a run stopped, every fully written segment file
\* is recorded.
C9_FileIsRecorded ==
    pc \in {"raised", "crashed"} =>
        \A f \in AllNames : (seg_files[f].exists /\ f \in written_full) => f \in Persisted

\* C9, where the record itself is readable: wherever a run stops (raised or
\* killed), every name in the persisted record has its segment file on disk,
\* and every fully written segment file on disk is named in the record.
C9_CrashConsistent ==
    state_file.kind # "corrupt" => (C9_RecordedHasFile /\ C9_FileIsRecorded)

RECURSIVE ContentsInOrder(_, _)
ContentsInOrder(names, files) ==
    IF names = <<>> THEN <<>>
    ELSE files[Head(names)].data \o ContentsInOrder(Tail(names), files)

\* C10: when concatenate_videos returns, the destination holds the contents
\* of the input files in list order and nothing else; for files of 10, 0 and
\* 7 bytes that is 17 bytes, the first file followed by the third.
C10_ByteExact ==
    pc = "convert" =>
        /\ temp_ts.exists
        /\ temp_ts.data = ContentsInOrder(ts_files, seg_files)
        /\ (ts_files = ExampleFiles /\ seg_files = ExampleData) =>
              /\ Len(temp_ts.data) = 17
              /\ temp_ts.data = seg_files["a.ts"].data \o seg_files["segment_0.ts"].data

\* C10 witness: the 10, 0, 7 byte example has been assembled.
C10_Witness ==
    /\ pc = "convert"
    /\ ts_files = ExampleFiles
    /\ Len(seg_files["a.ts"].data) = 10
    /\ seg_files["b.ts"] = FileOf(<<>>)
    /\ Len(seg_files["segment_0.ts"].data) = 7
    /\ Len(temp_ts.data) = 17


-----------------------------------------------------------------------------
(* Properties of the resume state store (checked under SpecStore) *)

\* C11: a load that follows a save which returned gives back, for the URL
\* that was saved, the list and the total that were saved; for another URL
\* it gives what a load of that URL gave before the save (the same state, or
\* the same failure).
C11_RoundTrip ==
    LET before == dir_before[get_download_state_filename(load_url)]
    IN  /\ spc = "loaded" =>
              /\ load_url = store_url =>
                    /\ loaded.downloaded_segments = store_state.downloaded_segments
                    /\ loaded.total_segments = store_state.total_segments
              /\ load_url # store_url =>
                    /\ ~LoadRaises(before)
                    /\ loaded = load_download_state(before)
        /\ spc = "load_raised" => (load_url # store_url /\ LoadRaises(before))

\* C11 witness: a non-default state saved under one URL, while the other URL
\* has a different record of its own, and then loaded back.
C11_Witness ==
    /\ spc = "loaded"
    /\ load_url = store_url
    /\ Len(loaded.downloaded_segments) = 2
    /\ loaded.total_segments = 2
    /\ \E u \in Urls \ {store_url} :
          /\ state_dir[get_download_state_filename(u)].kind = "json"
          /\ state_dir[get_download_state_filename(u)] # state_dir[get_download_state_filename(store_url)]



-----------------------------------------------------------------------------
(* Properties of the record across runs (checked under Spec and SpecChange) *)

\* the segment identifiers of a playlist: the file names of its segment lines
SegmentNames(ls) == {NameAt(ls, i) : i \in SegmentLinesOf(ls)}

InFetchPass == pc \in {"fetch_loop", "fetch_get", "fetch_write", "fetch_save"}

\* C12: during the fetch pass of any run, the persisted set of completed
\* segment identifiers is a subset of the segment identifiers of the filtered
\* playlist this run parsed.
C12_CompletedSubset ==
    InFetchPass => Persisted \subseteq SegmentNames(FetchLines)



-----------------------------------------------------------------------------
(* Properties of the output name (checked under SpecName) *)

\* position of the last '/' of a name, 0 when it has none
LastSlash(name) ==
    IF \A i \in 1..Len(name) : name[i] # "/" THEN 0
    ELSE CHOOSE i \in 1..Len(name) :
            name[i] = "/" /\ \A j \in (i + 1)..Len(name) : name[j] # "/"

\* the directory part of a name, '/' included, and its file part
DirPart(name) == SubSeq(name, 1, LastSlash(name))
FilePart(name) == SubSeq(name, LastSlash(name) + 1, Len(name))

\* the name with the last dot-delimited suffix of its file part taken off:
\* directory and base name stay
WithoutSuffix(name) == DirPart(name) \o RSplitDotHead(FilePart(name))

\* the name names a file: its file part starts with something else than a dot
NamesAFile(name) == FilePart(name) # <<>> /\ FilePart(name)[1] # "."

\* C13, for requested names that name a file: the final path ends with
\* '.mp4'; a name that already does is unchanged; any other name keeps its
\* directory and base name, loses only the last dot-delimited suffix of the
\* file name and gets '.mp4' appended; 'video', 'video.mkv' and 'video.mp4'
\* all give 'video.mp4'.
C13_NameNormalized ==
    (npc \in {"plain", "resume"} /\ NamesAFile(output_filename)) =>
        /\ EndsWithMp4(final_name)
        /\ EndsWithMp4(output_filename) => final_name = output_filename
        /\ ~EndsWithMp4(output_filename) =>
              final_name = WithoutSuffix(output_filename) \o Mp4Ext
        /\ output_filename \in {<<"video">>, <<"video", ".", "mkv">>, <<"video", ".", "mp4">>}
              => final_name = <<"video", ".", "mp4">>



-----------------------------------------------------------------------------
(* The filter's loop, prefix by prefix (checked under SpecFilter) *)

\* skip_segment as the specification gives it after k markers
SkipAfter(k) == k >= 2 /\ k % 2 = 0

\* C14: after the loop has processed any prefix of the manifest holding k
\* markers, discontinuity_count is k and skip_segment is true iff k is even
\* and k >= 2; of the lines processed, a marker was emitted iff its ordinal
\* is odd, and a non-marker line was emitted iff skip was false at that line.
C14_FilterStateMachine ==
    fpc \in {"loop", "done"} =>
        LET k == MarkersBefore(lines, fpos + 1)
        IN  /\ discontinuity_count = k
            /\ skip_segment = SkipAfter(k)
            /\ \A i \in 1..fpos :
                  IF IsDiscontinuity(lines[i])
                  THEN (i \in Range(kept)) = ((MarkersBefore(lines, i) + 1) % 2 = 1)
                  ELSE (i \in Range(kept)) = ~SkipAfter(MarkersBefore(lines, i))

\* C14 witness: the loop is in the middle of a manifest, four markers in,
\* skipping, and has just dropped a non-marker line of the second ad span.
C14_Witness ==
    /\ fpc = "loop"
    /\ 0 < fpos /\ fpos < Len(lines)
    /\ discontinuity_count = 4
    /\ skip_segment
    /\ ~IsDiscontinuity(lines[fpos])
    /\ fpos \notin Range(kept)

\* C15: at every point of the loop, and when the function returns, the
\* output is a subsequence by position of the input lines: the emitted
\* positions are strictly increasing, each output line is the input line at
\* its position, the returned text is exactly these lines, and the lines the
\* loop runs over are consecutive lines of the text that was passed in.
C15_Subsequence ==
    fpc \in {"loop", "done"} =>
        /\ Increasing(kept)
        /\ Range(kept) \subseteq 1..fpos
        /\ Len(filtered_lines) = Len(kept)
        /\ \A j \in 1..Len(kept) : filtered_lines[j] = lines[kept[j]]
        /\ fpc = "done" => filter_result = filtered_lines
        /\ \E off \in 0..Len(m3u8_content) :
              \A i \in 1..Len(lines) :
                  off + i <= Len(m3u8_content) /\ lines[i] = m3u8_content[off + i]

\* C15 witness: a returned output that is a proper subsequence with lines
\* dropped from the middle and lines kept after them.
C15_Witness ==
    /\ fpc = "done"
    /\ Len(kept) >= 3
    /\ \E j \in 1..(Len(kept) - 1) : kept[j + 1] > kept[j] + 2
    /\ filter_result = filtered_lines



-----------------------------------------------------------------------------
(* Ordering and bookkeeping of the fetcher (checked under SpecFetch) *)

\* the record on disk names the segment of line i
Recorded(i) ==
    /\ state_file.kind = "json"
    /\ NameAt(FetchLines, i) \in Range(state_file.downloaded_segments)

\* C16: at every point of a pass, GETs and file writes have been issued in
\* playlist order, each file write directly after its own GET, and every
\* segment downloaded before the line the loop is at is named in the record
\* on disk: the state write for segment N is complete before the GET or the
\* file write of the next segment begins.
C16_WriteThrough ==
    (InFetchPass \/ pc = "cat_open") =>
        /\ Increasing(gets)
        /\ Len(writes) <= Len(gets) /\ Len(gets) <= Len(writes) + 1
        /\ \A k \in 1..Len(writes) : writes[k] = gets[k]
        /\ \A k \in 1..Len(gets) : gets[k] <= li => Recorded(gets[k])
        /\ pc \in {"fetch_get", "fetch_write"} =>
              \A k \in 1..Len(writes) : writes[k] <= li /\ Recorded(writes[k])

\* C16 witness: the body of a second segment is about to be written, the
\* first one, under another name, is already in the record.
C16_Witness ==
    /\ pc = "fetch_write"
    /\ Len(gets) = 2
    /\ Len(writes) = 1
    /\ Recorded(writes[1])
    /\ NameAt(FetchLines, gets[2]) # NameAt(FetchLines, gets[1])
    /\ ~Recorded(gets[2])

StableName(ls, i) ==
    IF Basename(PathOf(ls[i])) = ""
    THEN "segment_" \o ToString(SegmentOrdinal(ls, i)) \o ".ts"
    ELSE Basename(PathOf(ls[i]))

\* C19: whatever completed-set the pass was given, the name of the segment
\* the loop is at, and every name already put on ts_files, is the name its
\* position in the filtered playlist alone determines; a segment whose URL
\* path has no basename is named segment_<i>.ts, i its 0-based index among
\* the playlist's segment lines.
C19_SyntheticNameStable ==
    (InFetchPass \/ pc = "cat_open") =>
        LET ls == FetchLines
        IN  /\ \A i \in SegmentLinesOf(ls) :
                  SegmentOrdinal(ls, i) < Len(ts_files) =>
                      ts_files[SegmentOrdinal(ls, i) + 1] = StableName(ls, i)
            /\ (InFetchPass /\ li < Len(ls) /\ IsSegmentLine(ls[li + 1])) =>
                  /\ Len(ts_files) = SegmentOrdinal(ls, li + 1)
                  /\ CurName = StableName(ls, li + 1)

\* C19 witness: a resumed pass, first segment skipped as completed, mints
\* segment_1.ts for the segment at line 3, which is segment number 2.
C19_Witness ==
    /\ pc = "fetch_get"
    /\ filtered_content = <<LineA, DiscLine, LineQ>>
    /\ downloaded_segments = {"a.ts"}
    /\ li = 2
    /\ segment_index = 2
    /\ CurName = "segment_1.ts"

\* C20: every state write of a pass leaves the list of the record as it was
\* or appends one name to it, the name of the segment just downloaded, and
\* only when the list did not hold it; so the identifiers the pass started
\* with stay in the record.
C20_RecordOnlyGrows ==
    /\ [](state_file.kind = "json" =>
             downloaded_segments \subseteq Range(state_file.downloaded_segments))
    /\ [][state_file'.kind = "json" =>
             LET old == load_download_state(state_file).downloaded_segments
                 new == state_file'.downloaded_segments
             IN  \/ new = old
                 \/ /\ pc = "fetch_save"
                    /\ new = Append(old, CurName)
                    /\ CurName \notin Range(old)]_vars

\* C20 witness: a pass that started with b.ts in the record has fetched
\* a.ts and d/a.ts, both stored as a.ts; the record lists b.ts, then a.ts
\* once.
C20_Witness ==
    /\ pc = "fetch_loop"
    /\ downloaded_segments = {"b.ts"}
    /\ Len(gets) = 2
    /\ NameAt(FetchLines, gets[1]) = NameAt(FetchLines, gets[2])
    /\ state_file = JsonOf([downloaded_segments |-> <<"b.ts", "a.ts">>,
                            total_segments |-> CountSegments(FetchLines)])

-----------------------------------------------------------------------------
(* Failure of the assembler (checked under SpecCat) *)

\* C18: when an input file cannot be opened, concatenate_videos raises
\* instead of returning, and the destination is as the call found it: no
\* partially assembled file is left behind.
C18_AllOrNothing ==
    /\ (\E i \in 1..Len(ts_files) : ~seg_files[ts_files[i]].exists)
          => pc # "convert"
    /\ (pc = "raised" /\ error = "read") => temp_ts = dest_before


=============================================================================
